---- MODULE Spec2Model ----
(***************************************************************************)
(* Model of the ThatOpen fragments viewer: the render-mode switch of       *)
(* ThatOpenFragment, the useThatOpenFragments hook, and the rebuild /      *)
(* dispose life cycle of the three "recreated" renderers                   *)
(* (RecreatedElementsRenderer, DeclarativeRecreatedElementsRenderer,       *)
(* InstancedRecreatedElementsRenderer).                                    *)
(*                                                                         *)
(* Granularity: JavaScript runs each synchronous segment to completion, so *)
(* one action is one event handler / effect pass / continuation of an      *)
(* async function between two awaits.  A React state update is modelled    *)
(* together with the re-render it schedules (the render that copies the    *)
(* state into buildRef.current and re-runs effects whose deps changed).    *)
(***************************************************************************)
EXTENDS Integers, Sequences, FiniteSets, TLC

VARIABLES
  mode,            \* leva control 'mode' of ThatOpenFragment
  tree,            \* children rendered by ThatOpenFragment at its last render
  stateRef,        \* useThatOpenFragments: stateRef.current ("null" | "ready")
  scene,           \* fragments.list: one sequence of element ids per loaded model
  models,          \* useThatOpenFragments: `models` state (number of entries)
  frameUpdated,    \* whether the latest useFrame callback ran the camera/LOD update
  raycastInFlight, \* useThatOpenFragments: raycastInFlightRef.current
  selectionParts,  \* useThatOpenFragments: number of selection overlay parts
  fragmentsProp,   \* `fragments` prop the mounted renderer was last rendered with
  batchSize,       \* leva control 'batchSize'
  threshold,       \* leva control 'threshold'
  build,           \* `build` state of the mounted renderer (0 = null, else run index)
  buildRef,        \* buildRef.current of the mounted renderer
  disposablesRef,  \* RecreatedElementsRenderer: disposablesRef.current
  root,            \* RecreatedElementsRenderer: `root` state (0 = null, else run index)
  effectRun,       \* run started by the rebuild effect that is currently in force
  runs,            \* every async run() started so far, in start order
  hook,            \* useThatOpenFragments: position of its run(), mountedRef.current,
                   \* the FragmentsManager and the worker object URL it made
  audit            \* logInstancingAuditSummary: its arguments and what it logged

vars == << mode, tree, stateRef, scene, models, frameUpdated, raycastInFlight,
           selectionParts, fragmentsProp, batchSize, threshold, build, buildRef,
           disposablesRef, root, effectRun, runs, hook, audit >>

-----------------------------------------------------------------------------
(* Bounds of the model *)

\* number of rebuild runs started in one behaviour of one renderer
MaxRuns == 2
\* number of rebuild runs started in one behaviour of the whole application
AppRuns == 1
\* largest element count of a model
MaxIds == 3
\* largest value of the batchSize control (the real control is 50..2000)
MaxBatch == 2
\* batchSize of the instanced renderer, scaled down from 200
InstancedBatch == 2
\* largest value of the threshold control (the real control is 1..50)
MaxThreshold == 2
\* largest number of buckets in a bucket map handed to the audit
MaxBuckets == 2
\* largest explicit `topN` option handed to the audit
MaxTopN == 2

-----------------------------------------------------------------------------
(* Data served by the Fragments library *)

Modes == {"fragments", "recreated", "declarativeRecreated", "instancedRecreated"}

Undefined == "undefined"

RangeOf(s) == {s[i] : i \in DOMAIN s}

Ids(n) == [i \in 1..n |-> i]

\* The contents fragments.list can have once core.load has resolved.
Scenes == {<<Ids(n)>> : n \in 0..MaxIds} \cup {<<Ids(MaxIds), Ids(1)>>}

\* model.getSamples(): sampleId -> sample; "s5" is missing from the map.
AllSamples ==
  [s \in {"s1", "s2", "s3", "s4"} |->
     [material |-> CASE s = "s1" -> "m10"
                     [] s = "s2" -> "m10"
                     [] s = "s3" -> "m11"
                     [] OTHER    -> Undefined]]

MeshData(p, ix, s, t) == [positions |-> p, indices |-> ix, sampleId |-> s, transform |-> t]

\* model.getItemsGeometry(): the mesh parts of one element.
ElementGeometry(localId) ==
  LET k == ((localId - 1) % 5) + 1
      t == 10 * localId
  IN CASE k = 1 -> << MeshData(<<0, 1, 0>>, <<0>>, "s1", t + 1),
                      MeshData(<<0, 1, 0>>, <<0>>, "s2", t + 2) >>
       [] k = 2 -> << MeshData(<<>>, <<>>, "s1", t + 1),
                      MeshData(<<1, 1, 2>>, <<>>, "s3", t + 2),
                      MeshData(<<1, 1, 2>>, <<>>, "s3", t + 3),
                      MeshData(<<0, 1, 0>>, <<0>>, Undefined, t + 4) >>
       [] k = 3 -> << >>
       [] k = 4 -> << MeshData(<<1, 1, 2>>, <<>>, "s4", t + 1),
                      MeshData(<<0, 1, 0>>, <<0>>, "s1", t + 2) >>
       [] OTHER -> << MeshData(<<1, 1, 2>>, <<>>, "s5", t + 1) >>

-----------------------------------------------------------------------------
(* instancingKeys.ts *)

RECURSIVE Xor(_, _, _)
Xor(a, b, bits) ==
  IF bits = 0 THEN 0
  ELSE (((a % 2) + (b % 2)) % 2) + 2 * Xor(a \div 2, b \div 2, bits - 1)

\* The hash is kept to its low 16 bits (XOR and multiplication commute with
\* the truncation), so distinct arrays can still collide.
HashWidth == 16
HashMod == 65536
FnvOffsetBasis == 40389
FnvPrime == 403
MaxSamples == 64

fnv1a32Update(hash, v) == (Xor(hash, v % HashMod, HashWidth) * FnvPrime) % HashMod

Max(a, b) == IF a > b THEN a ELSE b
Min(a, b) == IF a < b THEN a ELSE b

RECURSIVE HashFrom(_, _, _, _)
HashFrom(a, i, step, hash) ==
  IF i > Len(a) THEN hash
  ELSE HashFrom(a, i + step, step, fnv1a32Update(hash, (a[i] * 1000000) % HashMod))

hashSampledArrayLike(a, maxSamples) ==
  IF Len(a) = 0 THEN 0
  ELSE LET step == Max(1, Len(a) \div maxSamples)
       IN fnv1a32Update(HashFrom(a, 1, step, FnvOffsetBasis), Len(a))

getGeometryKeyFromMeshData(md) ==
  << Len(md.positions), Len(md.indices),
     hashSampledArrayLike(md.positions, MaxSamples),
     hashSampledArrayLike(md.indices, MaxSamples) >>

\* sampleId -> materialId as both the key function and the resolver look it up
MaterialIdOf(md, allSamples) ==
  IF md.sampleId = Undefined THEN Undefined
  ELSE IF md.sampleId \notin DOMAIN allSamples THEN Undefined
  ELSE allSamples[md.sampleId].material

getMaterialKeyFromMeshData(md, allSamples) ==
  IF MaterialIdOf(md, allSamples) = Undefined THEN <<"fallback">>
  ELSE <<"mat", MaterialIdOf(md, allSamples)>>

BucketKey(md, allSamples) ==
  << getMaterialKeyFromMeshData(md, allSamples), getGeometryKeyFromMeshData(md) >>

-----------------------------------------------------------------------------
(* instancingKeys.ts: the instancing audit *)

\* A bucket map is the sequence of its values in insertion order (a BucketLike
\* is a record with bucketKey and matrices); `options` is << >> when no topN
\* is given and << n >> for { topN: n }.

\* `options?.topN ?? 20`
DefaultTopN == 20

TopNOf(options) == IF options = << >> THEN DefaultTopN ELSE options[1]

\* values.reduce((acc, b) => acc + b.matrices.length, 0)
RECURSIVE totalParts(_, _)
totalParts(values, k) ==
  IF k = 0 THEN 0 ELSE totalParts(values, k - 1) + Len(values[k].matrices)

\* (bug variant: a pair counts as a singleton)
singletonBucketsUpToTwo(values) ==
  Cardinality({k \in DOMAIN values : Len(values[k].matrices) <= 2})

\* values.reduce((acc, b) => acc + (b.matrices.length === 1 ? 1 : 0), 0)
singletonBuckets(values) ==
  Cardinality({k \in DOMAIN values : Len(values[k].matrices) = 1})

HistogramLabels == {"1", "2", "3-5", "6-10", "11-50", "51-200", "201+"}

\* (bug variant: the upper limits are exclusive)
HistogramBinExclusive(n) ==
  IF n = 1 THEN "1"
  ELSE IF n = 2 THEN "2"
  ELSE IF n < 5 THEN "3-5"
  ELSE IF n < 10 THEN "6-10"
  ELSE IF n < 50 THEN "11-50"
  ELSE IF n < 200 THEN "51-200"
  ELSE "201+"

\* The if-chain of the histogram loop: the bin a bucket of n parts adds to.
HistogramBin(n) ==
  IF n = 1 THEN "1"
  ELSE IF n = 2 THEN "2"
  ELSE IF n <= 5 THEN "3-5"
  ELSE IF n <= 10 THEN "6-10"
  ELSE IF n <= 50 THEN "11-50"
  ELSE IF n <= 200 THEN "51-200"
  ELSE "201+"

\* `for (const b of values) { ... bucketSizeHistogram[...]++ }` from all zeros
RECURSIVE bucketSizeHistogram(_, _)
bucketSizeHistogram(values, k) ==
  IF k = 0 THEN [l \in HistogramLabels |-> 0]
  ELSE [bucketSizeHistogram(values, k - 1)
          EXCEPT ![HistogramBin(Len(values[k].matrices))] = @ + 1]

\* Array.prototype.sort with (a, b) => b.matrices.length - a.matrices.length:
\* a stable sort, so b goes behind everything that is at least as large.
InsertByInstances(sorted, b) ==
  LET n == Cardinality({k \in DOMAIN sorted :
                          Len(sorted[k].matrices) >= Len(b.matrices)})
  IN SubSeq(sorted, 1, n) \o << b >> \o SubSeq(sorted, n + 1, Len(sorted))

RECURSIVE SortByInstances(_, _)
SortByInstances(values, k) ==
  IF k = 0 THEN << >> ELSE InsertByInstances(SortByInstances(values, k - 1), values[k])

\* (bug variant: the repeated buckets are not sorted before the slice)
topRepeatedBucketsUnsorted(values, topN) ==
  LET repeated == SelectSeq(values, LAMBDA b : Len(b.matrices) > 1)
      top == SubSeq(repeated, 1, Min(topN, Len(repeated)))
  IN [k \in DOMAIN top |->
        [bucketKey |-> top[k].bucketKey, instances |-> Len(top[k].matrices)]]

\* values.filter(...).sort(...).slice(0, topN).map(...)
topRepeatedBuckets(values, topN) ==
  LET repeated == SelectSeq(values, LAMBDA b : Len(b.matrices) > 1)
      sorted == SortByInstances(repeated, Len(repeated))
      top == SubSeq(sorted, 1, Min(topN, Len(sorted)))
  IN [k \in DOMAIN top |->
        [bucketKey |-> top[k].bucketKey, instances |-> Len(top[k].matrices)]]

computeInstancingAuditSummary(bucketMap, options) ==
  LET topN == TopNOf(options)
      values == bucketMap
      total == totalParts(values, Len(values))
      uniqueBuckets == Len(bucketMap)
      singletons == singletonBuckets(values)
      repeatedBuckets == uniqueBuckets - singletons
      uniqueParts == singletons
      nonUniqueParts == total - uniqueParts
  IN [totalParts |-> total,
      uniqueBuckets_geometryPlusMaterial |-> uniqueBuckets,
      uniqueParts_singletons |-> uniqueParts,
      nonUniqueParts_repeated |-> nonUniqueParts,
      singletonBuckets |-> singletons,
      repeatedBuckets |-> repeatedBuckets,
      bucketSizeHistogram |-> bucketSizeHistogram(values, Len(values)),
      topRepeatedBuckets |-> topRepeatedBuckets(values, topN)]

\* logInstancingAuditSummary(bucketMap, options): the call and its console output
logInstancingAuditSummary(bucketMap, options) ==
  [bucketMap |-> bucketMap, options |-> options,
   log |-> << computeInstancingAuditSummary(bucketMap, options) >>]

\* The bucket map seen as BucketLike values
AsBucketLike(bucketMap) ==
  [k \in DOMAIN bucketMap |->
     [bucketKey |-> bucketMap[k].bucketKey, matrices |-> bucketMap[k].matrices]]

\* Bucket maps handed to the audit on its own: up to MaxBuckets buckets with
\* distinct keys, each holding at least one matrix as every bucket the
\* renderer makes does, their sizes taken from both ends of every histogram bin.
AuditSizes == {1, 2, 3, 5, 6, 10, 11, 50, 51, 200, 201}

AuditBucketMaps ==
  UNION {{[k \in 1..n |-> [bucketKey |-> k, matrices |-> [j \in 1..sizes[k] |-> 0]]] :
            sizes \in [1..n -> AuditSizes]} : n \in 0..MaxBuckets}

AuditOptions == {<< >>} \cup {<< n >> : n \in 0..MaxTopN}

-----------------------------------------------------------------------------
(* Disposables, material resolver, geometry builder *)

\* A run's work: `geometries` and `materials` are the two Disposables arrays,
\* `cache` is materialCache, `parts` the output list (nextParts / meshes added
\* to nextRoot), `bucketMap` the instanced renderer's map in insertion order,
\* `buckets` its final bucket list. `createdG` and `createdM` count the
\* `new BufferGeometry()` and `new MeshLambertMaterial()` calls of the run: an
\* object is identified by its creation number, which is the `id` of its
\* entry in a Disposables array.
EmptyWork ==
  [geometries |-> <<>>, materials |-> <<>>, cache |-> <<>>, parts |-> <<>>,
   bucketMap |-> <<>>, buckets |-> <<>>, createdG |-> 0, createdM |-> 0]

CacheIndex(cache, materialId) ==
  IF \E k \in DOMAIN cache : cache[k].id = materialId
  THEN (CHOOSE k \in DOMAIN cache : cache[k].id = materialId)
  ELSE 0

\* createLambertMaterialResolver: the fallback material is created and
\* registered when the resolver is made.
createLambertMaterialResolver(w) ==
  LET mat == w.createdM + 1
  IN [w EXCEPT !.createdM = mat,
               !.materials = Append(@, [id |-> mat, color |-> "fallback"])]

FallbackMaterial == 1

\* (bug variant: the cache is never consulted)
getOrCreateUncached(w, materialId) ==
  LET mat == w.createdM + 1
  IN << [w EXCEPT !.createdM = mat,
                  !.materials = Append(@, [id |-> mat, color |-> materialId]),
                  !.cache = Append(@, [id |-> materialId, material |-> mat])],
        mat >>

\* getOrCreate(materialId, raw): << work', material >>
getOrCreate(w, materialId) ==
  LET k == CacheIndex(w.cache, materialId)
  IN IF k # 0 THEN << w, w.cache[k].material >>
     ELSE LET mat == w.createdM + 1
          IN << [w EXCEPT !.createdM = mat,
                          !.materials = Append(@, [id |-> mat, color |-> materialId]),
                          !.cache = Append(@, [id |-> materialId, material |-> mat])],
                mat >>

\* resolveForMeshData(meshData, allSamples, allRawMaterials): << work', material >>
resolveForMeshData(w, md, allSamples) ==
  IF md.sampleId = Undefined THEN << w, FallbackMaterial >>
  ELSE IF md.sampleId \notin DOMAIN allSamples THEN << w, FallbackMaterial >>
  ELSE IF allSamples[md.sampleId].material = Undefined THEN << w, FallbackMaterial >>
  ELSE getOrCreate(w, allSamples[md.sampleId].material)

\* (bug variant: the geometry is created but not pushed to the disposables)
buildGeometryUnregistered(w, md) ==
  IF Len(md.positions) = 0 THEN << w, 0 >>
  ELSE << [w EXCEPT !.createdG = @ + 1], w.createdG + 1 >>

\* buildGeometryFromMeshData(meshData, disposables): << work', geometry >>,
\* geometry 0 standing for null.
buildGeometryFromMeshData(w, md) ==
  IF Len(md.positions) = 0 THEN << w, 0 >>
  ELSE LET geometry == w.createdG + 1
       IN << [w EXCEPT !.createdG = geometry,
                       !.geometries =
                         Append(@, [id |-> geometry, positions |-> md.positions,
                                    indices |-> md.indices])],
             geometry >>

\* toMatrix4(md.transform): the transform array becomes a Matrix4 with the
\* same 16 elements; a transform is one number here.
toMatrix4(t) == [elements |-> t]

-----------------------------------------------------------------------------
(* The synchronous loops over one fetched chunk *)

\* DeclarativeRecreatedElementsRenderer.run, `for (const md of elemParts)`
RECURSIVE DeclElement(_, _, _, _, _, _)
DeclElement(w, modelId, localId, elemParts, j, partIndex) ==
  IF j > Len(elemParts) THEN w
  ELSE LET md == elemParts[j]
           g  == buildGeometryFromMeshData(w, md)
       IN IF g[2] = 0
          THEN DeclElement(w, modelId, localId, elemParts, j + 1, partIndex)
          ELSE LET m == resolveForMeshData(g[1], md, AllSamples)
                   part == [key |-> <<modelId, localId, partIndex>>,
                            modelId |-> modelId, localId |-> localId,
                            geometry |-> g[2], material |-> m[2],
                            matrix |-> toMatrix4(md.transform),
                            md |-> md]
               IN DeclElement([m[1] EXCEPT !.parts = Append(@, part)],
                              modelId, localId, elemParts, j + 1, partIndex + 1)

\* DeclarativeRecreatedElementsRenderer.run, `for (let i = 0; i < chunk.length; i++)`
RECURSIVE DeclChunk(_, _, _, _)
DeclChunk(w, modelId, chunk, i) ==
  IF i > Len(chunk) THEN w
  ELSE DeclChunk(DeclElement(w, modelId, chunk[i], ElementGeometry(chunk[i]), 1, 0),
                 modelId, chunk, i + 1)

BucketIndex(bucketMap, bucketKey) ==
  IF \E k \in DOMAIN bucketMap : bucketMap[k].bucketKey = bucketKey
  THEN (CHOOSE k \in DOMAIN bucketMap : bucketMap[k].bucketKey = bucketKey)
  ELSE 0

\* (bug variant: the matrix is pushed only when the bucket is created)
InstPartPushOnCreate(w, md) ==
  IF Len(md.positions) = 0 THEN w
  ELSE LET bucketKey == BucketKey(md, AllSamples)
           k == BucketIndex(w.bucketMap, bucketKey)
       IN IF k # 0 THEN w
          ELSE LET m == resolveForMeshData(w, md, AllSamples)
                   bucket == [bucketKey |-> bucketKey, templateMd |-> md,
                              material |-> m[2],
                              matrices |-> << toMatrix4(md.transform) >>]
               IN [m[1] EXCEPT !.bucketMap = Append(@, bucket)]

\* InstancedRecreatedElementsRenderer.run, body of `for (const md of elemParts)`
InstPart(w, md) ==
  IF Len(md.positions) = 0 THEN w
  ELSE LET bucketKey == BucketKey(md, AllSamples)
           k == BucketIndex(w.bucketMap, bucketKey)
       IN IF k # 0
          THEN [w EXCEPT !.bucketMap[k].matrices = Append(@, toMatrix4(md.transform))]
          ELSE LET m == resolveForMeshData(w, md, AllSamples)
                   bucket == [bucketKey |-> bucketKey, templateMd |-> md,
                              material |-> m[2],
                              matrices |-> << toMatrix4(md.transform) >>]
               IN [m[1] EXCEPT !.bucketMap = Append(@, bucket)]

RECURSIVE InstElement(_, _, _)
InstElement(w, elemParts, j) ==
  IF j > Len(elemParts) THEN w
  ELSE InstElement(InstPart(w, elemParts[j]), elemParts, j + 1)

RECURSIVE InstChunk(_, _, _)
InstChunk(w, chunk, i) ==
  IF i > Len(chunk) THEN w
  ELSE InstChunk(InstElement(w, ElementGeometry(chunk[i]), 1), chunk, i + 1)

\* InstancedRecreatedElementsRenderer.run, "Build one shared geometry per bucket"
RECURSIVE InstBuckets(_, _)
InstBuckets(w, k) ==
  IF k > Len(w.bucketMap) THEN w
  ELSE LET b == w.bucketMap[k]
           g == buildGeometryFromMeshData(w, b.templateMd)
       IN IF g[2] = 0 THEN InstBuckets(w, k + 1)
          ELSE InstBuckets(
                 [g[1] EXCEPT !.buckets =
                    Append(@, [bucketKey |-> b.bucketKey, geometry |-> g[2],
                               material |-> b.material, matrices |-> b.matrices])],
                 k + 1)

\* RecreatedElementsRenderer.run, `for (const md of parts)`
RECURSIVE RecElement(_, _, _, _, _)
RecElement(w, modelId, localId, elemParts, j) ==
  IF j > Len(elemParts) THEN w
  ELSE LET md == elemParts[j]
       IN IF Len(md.positions) = 0
          THEN RecElement(w, modelId, localId, elemParts, j + 1)
          ELSE LET g == buildGeometryFromMeshData(w, md)
                   m == resolveForMeshData(g[1], md, AllSamples)
                   mesh == [key |-> <<modelId, localId>>,
                            modelId |-> modelId, localId |-> localId,
                            geometry |-> g[2], material |-> m[2],
                            matrix |-> toMatrix4(md.transform), md |-> md]
               IN RecElement([m[1] EXCEPT !.parts = Append(@, mesh)],
                             modelId, localId, elemParts, j + 1)

RECURSIVE RecChunk(_, _, _, _)
RecChunk(w, modelId, chunk, i) ==
  IF i > Len(chunk) THEN w
  ELSE RecChunk(RecElement(w, modelId, chunk[i], ElementGeometry(chunk[i]), 1),
                modelId, chunk, i + 1)

\* sampleIdSet of a chunk (RecreatedElementsRenderer.run)
ChunkSampleIds(chunk) ==
  {md.sampleId : md \in UNION {RangeOf(ElementGeometry(chunk[i])) : i \in DOMAIN chunk}}
    \ {Undefined}

\* materialIdSet of the samples fetched for a chunk
ChunkMaterialIds(chunk) ==
  {AllSamples[s].material : s \in ChunkSampleIds(chunk) \cap DOMAIN AllSamples}
    \ {Undefined}

ProcessChunk(kind, w, modelId, chunk) ==
  CASE kind = "declarativeRecreated" -> DeclChunk(w, modelId, chunk, 1)
    [] kind = "instancedRecreated"   -> InstChunk(w, chunk, 1)
    [] OTHER                         -> RecChunk(w, modelId, chunk, 1)

-----------------------------------------------------------------------------
(* The async run() of a rebuild effect *)

Finished == {"done", "returned"}

\* (bug variant: the slice runs one id into the next chunk)
ChunkOfOverlap(allIds, start, size) ==
  SubSeq(allIds, start + 1, Min(start + size + 1, Len(allIds)))

\* allIds.slice(start, start + batchSize), with start counted from 0
ChunkOf(allIds, start, size) == SubSeq(allIds, start + 1, Min(start + size, Len(allIds)))

\* State of run() when the effect has called it and it sits at its first await
\* (model.getSamples() of the first model).
NewRun(kind, size) ==
  [kind |-> kind, cancelled |-> FALSE, pc |-> "getSamples", batchSize |-> size,
   mi |-> 1, start |-> 0, chunk |-> <<>>, calls |-> <<>>,
   w |-> createLambertMaterialResolver(EmptyWork),
   disposedG |-> {}, disposedM |-> {}]

\* Head of `for (let start = 0; start < allIds.length; start += batchSize)` and,
\* when it exits, of `for (const [modelId, model] of fragments.list)`: run() goes
\* on synchronously up to its next await, or falls out of both loops ("finish").
EnterLoop(r) ==
  IF r.start < Len(scene[r.mi])
  THEN LET c == ChunkOf(scene[r.mi], r.start, r.batchSize)
       IN [r EXCEPT !.chunk = c, !.calls = Append(@, <<r.mi, c>>), !.pc = "getGeometry"]
  ELSE IF r.mi < Len(scene)
       THEN [r EXCEPT !.mi = @ + 1, !.start = 0, !.chunk = <<>>, !.pc = "getSamples"]
       ELSE [r EXCEPT !.chunk = <<>>, !.pc = "finish"]

\* The chunk's parts are processed and the batch loop steps on.
AfterChunk(r) ==
  EnterLoop([r EXCEPT !.w = ProcessChunk(r.kind, r.w, r.mi, r.chunk),
                      !.start = @ + r.batchSize])

\* Continuation of run() after the await it sits at. Every await is followed
\* by `if (cancelled) return`.
Resume(r) ==
  IF r.cancelled THEN [r EXCEPT !.pc = "returned"]
  ELSE CASE r.pc = "getSamples"   -> [r EXCEPT !.pc = "getMaterials"]
         [] r.pc = "getMaterials" -> [r EXCEPT !.pc = "getIds"]
         [] r.pc = "getIds"       -> EnterLoop([r EXCEPT !.start = 0])
         [] r.pc = "getGeometry"  ->
              IF r.kind # "recreated" THEN AfterChunk(r)
              ELSE IF ChunkSampleIds(r.chunk) # {} THEN [r EXCEPT !.pc = "chunkSamples"]
              ELSE AfterChunk(r)
         [] r.pc = "chunkSamples" ->
              IF ChunkMaterialIds(r.chunk) # {} THEN [r EXCEPT !.pc = "chunkMaterials"]
              ELSE AfterChunk(r)
         [] OTHER                 -> AfterChunk(r)

-----------------------------------------------------------------------------
(* Component state, effects and their cleanups *)

Cur ==
  [build |-> build, buildRef |-> buildRef, disposablesRef |-> disposablesRef,
   root |-> root, effectRun |-> effectRun, runs |-> runs]

\* `for (const g of d.geometries) g.dispose(); for (const m of d.materials) m.dispose()`
\* on the disposables of run i (0 = null: nothing to dispose)
DisposeRun(rs, i) ==
  IF i = 0 THEN rs
  ELSE [rs EXCEPT ![i].disposedG = {g.id : g \in RangeOf(rs[i].w.geometries)},
                  ![i].disposedM = {m.id : m \in RangeOf(rs[i].w.materials)}]

\* (bug variant: the ref is never refreshed after the first render)
RenderBuildRefStale(b) == buildRef

\* `buildRef.current = build`, executed by every render
RenderBuildRef(b) == b

\* Cleanup of the first effect of the declarative / instanced renderer (unmount).
UnmountCleanup(S) == [S EXCEPT !.runs = DisposeRun(@, S.buildRef)]

\* Cleanup returned by the rebuild effect of the declarative / instanced renderer.
CancelCleanup(S) ==
  IF S.effectRun = 0 THEN S
  ELSE [S EXCEPT !.runs[S.effectRun].cancelled = TRUE, !.effectRun = 0]

\* Cleanup returned by the effect of RecreatedElementsRenderer.
RecreatedCleanup(S) ==
  IF S.effectRun = 0 THEN S
  ELSE [S EXCEPT !.runs = DisposeRun([@ EXCEPT ![S.effectRun].cancelled = TRUE],
                                     S.disposablesRef),
                 !.disposablesRef = 0, !.root = 0, !.effectRun = 0]

RebuildCleanup(kind, S) ==
  CASE kind = "recreated" -> RecreatedCleanup(S)
    [] kind \in {"declarativeRecreated", "instancedRecreated"} -> CancelCleanup(S)
    [] OTHER -> S

\* (bug variant: the old build stays on screen during a rebuild)
ClearBuildSkipped(S) == S

\* `setBuild(null)` at the head of the rebuild effect, and the render it causes
ClearBuild(S) == [S EXCEPT !.build = 0, !.buildRef = RenderBuildRef(0)]

\* Body of the rebuild effect. `loaded` is fragments.list.size > 0.
RebuildEffect(kind, S, frag, loaded, size) ==
  IF frag = "null" \/ ~loaded THEN S
  ELSE LET new == Len(S.runs) + 1
       IN CASE kind = "recreated" ->
                 [S EXCEPT !.root = new, !.effectRun = new,
                           !.runs = Append(@, NewRun(kind, size))]
            [] kind = "declarativeRecreated" ->
                 [ClearBuild(S) EXCEPT !.effectRun = new,
                                       !.runs = Append(@, NewRun(kind, size))]
            [] kind = "instancedRecreated" ->
                 [ClearBuild(S) EXCEPT !.effectRun = new,
                                       !.runs = Append(@, NewRun(kind, InstancedBatch))]
            [] OTHER -> S

\* A re-render with a changed dependency: old cleanup, then the effect again.
Rebuild(kind, S, frag, loaded, size) ==
  RebuildEffect(kind, RebuildCleanup(kind, S), frag, loaded, size)

\* The component leaves the tree: all its cleanups run, its state and refs go.
Unmount(kind, S) ==
  CASE kind = "recreated" ->
         [RecreatedCleanup(S) EXCEPT !.root = 0, !.disposablesRef = 0]
    [] kind \in {"declarativeRecreated", "instancedRecreated"} ->
         [CancelCleanup(UnmountCleanup(S)) EXCEPT !.build = 0, !.buildRef = 0]
    [] OTHER -> S

\* The component enters the tree: fresh state, then its effects.
Mount(kind, S, frag, loaded, size) == RebuildEffect(kind, S, frag, loaded, size)

SetRenderer(S) ==
  /\ build' = S.build
  /\ buildRef' = S.buildRef
  /\ disposablesRef' = S.disposablesRef
  /\ root' = S.root
  /\ effectRun' = S.effectRun
  /\ runs' = S.runs

rendererVars == << build, buildRef, disposablesRef, root, effectRun, runs >>
hookVars == << stateRef, scene, models, frameUpdated, raycastInFlight, selectionParts >>

-----------------------------------------------------------------------------
(* Render of InstancedRecreatedElementsRenderer *)

\* `const buckets = build?.buckets ?? []`
RenderedBuckets == IF build = 0 THEN <<>> ELSE runs[build].w.buckets

\* `Number.isFinite(threshold) ? Math.max(1, Math.floor(threshold)) : 1`; the
\* control steps by 1, so Math.floor leaves its value as it is
ThresholdT(th) == Max(1, th)

\* (bug variant: a bucket of exactly t parts is instanced too)
IsInstancedInclusive(b, t) == Len(b.matrices) >= t

\* `b.matrices.length > t`
IsInstanced(b, t) == Len(b.matrices) > t

\* `b.matrices.length <= t`
IsUninstanced(b, t) == Len(b.matrices) <= t

\* buckets.filter(...), as the sets of positions kept
InstancedBuckets(buckets, th) ==
  {k \in DOMAIN buckets : IsInstanced(buckets[k], ThresholdT(th))}
UninstancedBuckets(buckets, th) ==
  {k \in DOMAIN buckets : IsUninstanced(buckets[k], ThresholdT(th))}

-----------------------------------------------------------------------------
(* ThatOpenFragment *)

\* (bug variant: the frame update is left on in every mode)
EnableUpdatesAlways(m) == TRUE

\* second and third argument of useThatOpenFragments
EnableUpdates(m) == m = "fragments"
EnableSelectionOverlay(m) == m = "fragments"

\* The JSX returned by ThatOpenFragment for a value of `mode`.
ThatOpenFragmentRender(m) ==
  (IF m = "fragments" THEN {"FragmentsRenderer"} ELSE {})
  \cup (IF m = "fragments" /\ EnableSelectionOverlay(m) THEN {"selectionOverlay"} ELSE {})
  \cup (IF m = "recreated" THEN {"RecreatedElementsRenderer"} ELSE {})
  \cup (IF m = "declarativeRecreated" THEN {"DeclarativeRecreatedElementsRenderer"} ELSE {})
  \cup (IF m = "instancedRecreated" THEN {"InstancedRecreatedElementsRenderer"} ELSE {})

Renderers ==
  {"FragmentsRenderer", "RecreatedElementsRenderer",
   "DeclarativeRecreatedElementsRenderer", "InstancedRecreatedElementsRenderer"}

\* The renderer with rebuild state that a tree holds.
KindOf(t) ==
  CASE "RecreatedElementsRenderer" \in t -> "recreated"
    [] "DeclarativeRecreatedElementsRenderer" \in t -> "declarativeRecreated"
    [] "InstancedRecreatedElementsRenderer" \in t -> "instancedRecreated"
    [] OTHER -> "fragments"

\* `stateRef.current?.fragments ?? null` as read by a render of ThatOpenFragment
FragmentsOf(ref) == IF ref = "ready" THEN "F" ELSE "null"

-----------------------------------------------------------------------------
(* Initial state: ThatOpenFragment has mounted with `mode` = m, nothing is
   loaded yet *)

\* minSimilarInstances = 1, the initial value of the threshold control
DefaultThreshold == 1

\* The hook has started run(): the worker fetch is pending, nothing is made.
HookStarted ==
  [pc |-> "fetchWorker", mountedRef |-> TRUE, fragments |-> "none", workerUrl |-> "none"]

\* Nothing has been handed to the audit.
NoAudit == [bucketMap |-> << >>, options |-> << >>, log |-> << >>]

MountedIn(m) ==
  /\ mode = m
  /\ tree = ThatOpenFragmentRender(m)
  /\ stateRef = "null"
  /\ scene = <<>>
  /\ models = 0
  /\ frameUpdated = FALSE
  /\ raycastInFlight = FALSE
  /\ selectionParts = 0
  /\ fragmentsProp = "null"
  /\ batchSize \in 1..MaxBatch
  /\ threshold = DefaultThreshold
  /\ build = 0
  /\ buildRef = 0
  /\ disposablesRef = 0
  /\ root = 0
  /\ effectRun = 0
  /\ runs = <<>>
  /\ hook = HookStarted

InitIn(m) ==
  /\ MountedIn(m)
  /\ audit = NoAudit

\* `mode` starts as 'instancedRecreated'.
Init == InitIn("instancedRecreated")

-----------------------------------------------------------------------------
(* useThatOpenFragments *)

\* run() of the hook after the worker fetch: fragments.init, listeners,
\* stateRef.current = { fragments, workerUrl }. A ref write renders nothing.
\* run() does not look at mountedRef: it goes on after a cleanup.
HookInit ==
  /\ hook.pc = "fetchWorker"
  /\ stateRef' = "ready"
  /\ hook' = [hook EXCEPT !.pc = "loading", !.fragments = "initialised",
                          !.workerUrl = "created"]
  /\ UNCHANGED << mode, tree, scene, models, frameUpdated, raycastInFlight,
                  selectionParts, fragmentsProp, batchSize, threshold, rendererVars,
                  audit >>

\* fragments.core.load resolves: list.onItemSet -> updateModelsFromList ->
\* setModels; ThatOpenFragment re-renders and hands the renderer the manager.
\* After a cleanup the onItemSet listener returns at `!mountedRef.current`:
\* the manager run() holds gets the model if it is still live, and nothing
\* of the component changes.
ModelLoaded(limit) ==
  /\ hook.pc = "loading"
  /\ hook' = [hook EXCEPT !.pc = "loaded"]
  /\ IF hook.mountedRef
     THEN /\ \E sc \in Scenes :
               /\ scene' = sc
               /\ models' = Len(sc)
          /\ fragmentsProp' = FragmentsOf(stateRef)
          /\ LET S == IF fragmentsProp' # fragmentsProp
                      THEN Rebuild(KindOf(tree), Cur, fragmentsProp', TRUE, batchSize)
                      ELSE Cur
             IN /\ Len(S.runs) <= limit
                /\ SetRenderer(S)
     ELSE /\ IF hook.fragments = "initialised"
             THEN scene' \in Scenes
             ELSE scene' = scene
          /\ UNCHANGED << models, fragmentsProp, rendererVars >>
  /\ UNCHANGED << mode, tree, stateRef, frameUpdated, raycastInFlight,
                  selectionParts, batchSize, threshold, audit >>

\* ThatOpenFragment unmounts: the cleanup of the hook's effect, and the
\* unmount of the renderer it had mounted.
UnmountApp ==
  /\ hook.mountedRef
  /\ hook' = [hook EXCEPT !.mountedRef = FALSE,
                          !.fragments = IF stateRef = "ready" THEN "disposed" ELSE @,
                          !.workerUrl = IF stateRef = "ready" THEN "revoked" ELSE @]
  /\ stateRef' = "null"
  /\ models' = 0
  /\ selectionParts' = 0
  /\ tree' = {}
  /\ fragmentsProp' = "null"
  /\ SetRenderer(Unmount(KindOf(tree), Cur))
  /\ UNCHANGED << mode, scene, frameUpdated, raycastInFlight, batchSize, threshold,
                  audit >>

\* useFrame callback
Frame ==
  /\ hook.mountedRef
  /\ frameUpdated' = (EnableUpdates(mode) /\ stateRef = "ready")
  /\ UNCHANGED << mode, tree, stateRef, scene, models, raycastInFlight,
                  selectionParts, fragmentsProp, batchSize, threshold, rendererVars,
                  hook, audit >>

\* handlePointerDown on the click catcher, up to doRaycast's first await
PointerDown ==
  /\ "selectionOverlay" \in tree
  /\ EnableSelectionOverlay(mode)
  /\ ~raycastInFlight
  /\ stateRef = "ready"
  /\ scene # <<>>
  /\ raycastInFlight' = TRUE
  /\ UNCHANGED << mode, tree, stateRef, scene, models, frameUpdated,
                  selectionParts, fragmentsProp, batchSize, threshold, rendererVars,
                  hook, audit >>

\* doRaycast resolves: no hit clears the selection, a hit replaces it (a
\* state update of an unmounted component does nothing)
RaycastDone ==
  /\ raycastInFlight
  /\ raycastInFlight' = FALSE
  /\ IF hook.mountedRef THEN selectionParts' \in 0..1
                        ELSE selectionParts' = selectionParts
  /\ UNCHANGED << mode, tree, stateRef, scene, models, frameUpdated,
                  fragmentsProp, batchSize, threshold, rendererVars, hook, audit >>

-----------------------------------------------------------------------------
(* Debug panel *)

\* The `mode` control changes: ThatOpenFragment re-renders, the old renderer
\* unmounts and the new one mounts.
SetMode(m, limit) ==
  /\ hook.mountedRef
  /\ m # mode
  /\ mode' = m
  /\ tree' = ThatOpenFragmentRender(m)
  /\ fragmentsProp' = FragmentsOf(stateRef)
  /\ selectionParts' = IF EnableSelectionOverlay(mode) /\ ~EnableSelectionOverlay(m)
                       THEN 0 ELSE selectionParts
  /\ LET S == Mount(KindOf(tree'), Unmount(KindOf(tree), Cur),
                    fragmentsProp', scene # <<>>, batchSize)
     IN /\ Len(S.runs) <= limit
        /\ SetRenderer(S)
  /\ UNCHANGED << stateRef, scene, models, frameUpdated, raycastInFlight,
                  batchSize, threshold, hook, audit >>

\* The `batchSize` control of the recreated / declarative renderer changes.
SetBatchSize(b, limit) ==
  /\ KindOf(tree) \in {"recreated", "declarativeRecreated"}
  /\ b # batchSize
  /\ batchSize' = b
  /\ LET S == Rebuild(KindOf(tree), Cur, fragmentsProp, scene # <<>>, b)
     IN /\ Len(S.runs) <= limit
        /\ SetRenderer(S)
  /\ UNCHANGED << mode, tree, hookVars, fragmentsProp, threshold, hook, audit >>

\* The `threshold` control of the instanced renderer changes (re-render only).
SetThreshold(t) ==
  /\ KindOf(tree) = "instancedRecreated"
  /\ t # threshold
  /\ threshold' = t
  /\ UNCHANGED << mode, tree, hookVars, fragmentsProp, batchSize, rendererVars,
                  hook, audit >>

\* The `regenerate` button: setRebuildToken((t) => t + 1)
Regenerate(limit) ==
  /\ KindOf(tree) = "instancedRecreated"
  /\ LET S == Rebuild(KindOf(tree), Cur, fragmentsProp, scene # <<>>, batchSize)
     IN /\ Len(S.runs) <= limit
        /\ S # Cur
        /\ SetRenderer(S)
  /\ UNCHANGED << mode, tree, hookVars, fragmentsProp, batchSize, threshold,
                  hook, audit >>

-----------------------------------------------------------------------------
(* Continuations of run() *)

\* setBuild((prev) => { dispose prev; return { parts, disposables } }) and the
\* render that follows
SwapBuild(S, i) ==
  [S EXCEPT !.runs = DisposeRun(@, S.build), !.build = i, !.buildRef = RenderBuildRef(i)]

\* run() has left both loops: the tail of the function.
FinishRun(S, i) ==
  LET r == S.runs[i]
  IN IF r.kind = "recreated"
     THEN [S EXCEPT !.runs[i].pc = "done", !.disposablesRef = i]
     ELSE LET w2 == IF r.kind = "instancedRecreated" THEN InstBuckets(r.w, 1) ELSE r.w
              S2 == [S EXCEPT !.runs[i].w = w2]
          IN IF r.cancelled
             THEN [S2 EXCEPT !.runs = DisposeRun([@ EXCEPT ![i].pc = "returned"], i)]
             ELSE SwapBuild([S2 EXCEPT !.runs[i].pc = "done"], i)

\* `logInstancingAuditSummary(bucketMap, { topN: 20 })`
InstancedAuditTopN == 20

\* The promise run i awaits resolves and run() goes on to its next await or
\* to its end; the instanced run logs its audit when it has left the loops.
RunStep(i) ==
  /\ i \in DOMAIN runs
  /\ runs[i].pc \notin Finished
  /\ LET S == [Cur EXCEPT !.runs[i] = Resume(runs[i])]
     IN /\ SetRenderer(IF S.runs[i].pc = "finish" THEN FinishRun(S, i) ELSE S)
        /\ audit' = IF S.runs[i].pc = "finish" /\ S.runs[i].kind = "instancedRecreated"
                    THEN logInstancingAuditSummary(AsBucketLike(S.runs[i].w.bucketMap),
                                                   << InstancedAuditTopN >>)
                    ELSE audit
  /\ UNCHANGED << mode, tree, hookVars, fragmentsProp, batchSize, threshold, hook >>

\* logInstancingAuditSummary called on a bucket map of its own
LogAudit ==
  /\ audit.log = << >>
  /\ audit' = logInstancingAuditSummary(audit.bucketMap, audit.options)
  /\ UNCHANGED << mode, tree, hookVars, fragmentsProp, batchSize, threshold,
                  rendererVars, hook >>

-----------------------------------------------------------------------------
(* Specifications *)

\* The whole application: every mode, the frame loop and the pointer.
Next ==
  \/ HookInit
  \/ ModelLoaded(AppRuns)
  \/ Frame
  \/ PointerDown
  \/ RaycastDone
  \/ \E m \in Modes : SetMode(m, AppRuns)
  \/ \E b \in 1..MaxBatch : SetBatchSize(b, AppRuns)
  \/ \E t \in 1..MaxThreshold : SetThreshold(t)
  \/ Regenerate(AppRuns)
  \/ \E i \in 1..AppRuns : RunStep(i)

Spec == Init /\ [][Next]_vars

\* The per-renderer specifications start after the user has picked the
\* renderer's mode in the panel, before anything is loaded.

\* The declarative renderer, switched on and off from the panel.
NextDecl ==
  \/ HookInit
  \/ ModelLoaded(MaxRuns)
  \/ \E m \in {"fragments", "declarativeRecreated"} : SetMode(m, MaxRuns)
  \/ \E b \in 1..MaxBatch : SetBatchSize(b, MaxRuns)
  \/ \E i \in 1..MaxRuns : RunStep(i)

SpecDecl == InitIn("declarativeRecreated") /\ [][NextDecl]_vars

\* The imperative recreated renderer, switched on and off from the panel.
NextRec ==
  \/ HookInit
  \/ ModelLoaded(MaxRuns)
  \/ \E m \in {"fragments", "recreated"} : SetMode(m, MaxRuns)
  \/ \E b \in 1..MaxBatch : SetBatchSize(b, MaxRuns)
  \/ \E i \in 1..MaxRuns : RunStep(i)

SpecRec == InitIn("recreated") /\ [][NextRec]_vars

\* The instanced renderer, switched on and off from the panel.
NextInst ==
  \/ HookInit
  \/ ModelLoaded(MaxRuns)
  \/ \E m \in {"fragments", "instancedRecreated"} : SetMode(m, MaxRuns)
  \/ \E t \in 1..MaxThreshold : SetThreshold(t)
  \/ Regenerate(MaxRuns)
  \/ \E i \in 1..MaxRuns : RunStep(i)

SpecInst == InitIn("instancedRecreated") /\ [][NextInst]_vars

\* Every renderer and every control that starts a rebuild, without the frame
\* loop, the pointer and the threshold control, none of which a run reads.
NextRuns ==
  \/ HookInit
  \/ ModelLoaded(AppRuns)
  \/ \E m \in Modes : SetMode(m, AppRuns)
  \/ \E b \in 1..MaxBatch : SetBatchSize(b, AppRuns)
  \/ Regenerate(AppRuns)
  \/ \E i \in 1..AppRuns : RunStep(i)

SpecRuns == Init /\ [][NextRuns]_vars

\* Every mode with the frame loop and the pointer, without the controls of
\* the renderers, which change neither the mode nor the tree.
NextModes ==
  \/ HookInit
  \/ ModelLoaded(AppRuns)
  \/ Frame
  \/ PointerDown
  \/ RaycastDone
  \/ \E m \in Modes : SetMode(m, AppRuns)
  \/ \E i \in 1..AppRuns : RunStep(i)

SpecModes == Init /\ [][NextModes]_vars

\* The whole application with the teardown of ThatOpenFragment.
NextHook ==
  \/ Next
  \/ UnmountApp

SpecHook == Init /\ [][NextHook]_vars

\* The instancing audit on its own, applied to one bucket map per behaviour.
InitAudit ==
  /\ MountedIn("instancedRecreated")
  /\ batchSize = 1
  /\ \E bm \in AuditBucketMaps, o \in AuditOptions :
       audit = [bucketMap |-> bm, options |-> o, log |-> << >>]

NextAudit == LogAudit

SpecAudit == InitAudit /\ [][NextAudit]_vars

-----------------------------------------------------------------------------
(* Vocabulary of the properties *)

AllDisposed(r) ==
  /\ r.disposedG = {g.id : g \in RangeOf(r.w.geometries)}
  /\ r.disposedM = {m.id : m \in RangeOf(r.w.materials)}

RECURSIVE ElementMeshData(_, _, _, _)
ElementMeshData(modelId, localId, elemParts, j) ==
  IF j > Len(elemParts) THEN <<>>
  ELSE << [modelId |-> modelId, localId |-> localId, md |-> elemParts[j]] >>
       \o ElementMeshData(modelId, localId, elemParts, j + 1)

RECURSIVE ModelMeshData(_, _, _)
ModelMeshData(modelId, allIds, i) ==
  IF i > Len(allIds) THEN <<>>
  ELSE ElementMeshData(modelId, allIds[i], ElementGeometry(allIds[i]), 1)
       \o ModelMeshData(modelId, allIds, i + 1)

RECURSIVE SceneMeshData(_, _)
SceneMeshData(sc, mi) ==
  IF mi > Len(sc) THEN <<>>
  ELSE ModelMeshData(mi, sc[mi], 1) \o SceneMeshData(sc, mi + 1)

\* Every mesh part the library returns for every element of every model, in
\* list order, and those of them with positions.
ReturnedParts == SceneMeshData(scene, 1)
NonEmptyParts == SelectSeq(ReturnedParts, LAMBDA p : Len(p.md.positions) > 0)

Project(parts) ==
  [k \in DOMAIN parts |->
     << parts[k].modelId, parts[k].localId, parts[k].md.transform >>]

\* `const parts = build?.parts ?? []` of the declarative renderer
RenderedParts == IF build = 0 THEN <<>> ELSE runs[build].w.parts

RebuildInProgress ==
  /\ effectRun # 0
  /\ runs[effectRun].pc \notin Finished

DeclMounted == "DeclarativeRecreatedElementsRenderer" \in tree

-----------------------------------------------------------------------------
(* Properties *)

\* C1: when the declarative renderer unmounts while it holds a completed
\* build, every geometry and material of that build's disposables is disposed
\* by the unmount.
C1_UnmountDisposesBuild ==
  [][ (DeclMounted /\ ~DeclMounted' /\ build # 0) => AllDisposed(runs'[build]) ]_vars

C1_Witness ==
  /\ mode = "fragments"
  /\ Len(runs) = 1
  /\ runs[1].kind = "declarativeRecreated"
  /\ runs[1].pc = "done"
  /\ Len(runs[1].w.geometries) > 1
  /\ Len(runs[1].w.materials) > 1
  /\ AllDisposed(runs[1])

\* C2: once a later build has replaced it, every geometry and material of an
\* earlier completed build has been disposed.
C2_NoLeakAcrossRebuilds ==
  build # 0 =>
    \A i \in 1..(build - 1) :
      (runs[i].kind = runs[build].kind /\ runs[i].pc = "done") => AllDisposed(runs[i])

\* C3: a declarative rebuild that was cancelled while its run was in progress
\* has returned with everything it had created disposed.
C3_CancelledRunDisposed ==
  \A i \in DOMAIN runs :
    (runs[i].kind = "declarativeRecreated" /\ runs[i].pc = "returned")
      => AllDisposed(runs[i])

\* C4: once the effect cleanup of RecreatedElementsRenderer has run, whatever
\* that effect's run created is disposed, also when the cleanup came mid-run.
C4_CleanupDisposesRun ==
  \A i \in DOMAIN runs :
    (runs[i].kind = "recreated" /\ runs[i].cancelled /\ runs[i].pc \in Finished)
      => AllDisposed(runs[i])

\* C5: the declarative renderer is all-or-nothing: no parts are rendered
\* while a rebuild is in progress, and the rendered parts are either none or
\* the complete output of one run that finished uncancelled.
C5_AllOrNothing ==
  DeclMounted =>
    /\ RebuildInProgress => RenderedParts = <<>>
    /\ \/ RenderedParts = <<>>
       \/ /\ runs[build].pc = "done"
          /\ runs[build].kind = "declarativeRecreated"
          /\ Project(RenderedParts) = Project(NonEmptyParts)

C5_Witness ==
  /\ DeclMounted
  /\ build = 2
  /\ runs[1].pc = "done"
  /\ Len(RenderedParts) >= 3
  /\ Len(scene) = 2

InstMounted == "InstancedRecreatedElementsRenderer" \in tree

RECURSIVE SumLen(_, _)
SumLen(buckets, k) ==
  IF k > Len(buckets) THEN 0 ELSE Len(buckets[k].matrices) + SumLen(buckets, k + 1)

Occurrences(seq, x) == Cardinality({k \in DOMAIN seq : seq[k] = x})

\* The parts with positions whose key is bucketKey and whose matrix is mx
PartsFor(bucketKey, mx) ==
  {k \in DOMAIN NonEmptyParts :
     /\ BucketKey(NonEmptyParts[k].md, AllSamples) = bucketKey
     /\ toMatrix4(NonEmptyParts[k].md.transform) = mx}

\* C6: in an uncancelled instanced build every part with positions has put
\* exactly one matrix into exactly one bucket, the one keyed by its
\* materialKey|geometryKey; parts without positions put nothing anywhere; the
\* bucket sizes add up to the number of parts with positions.
C6_GroupedByKey ==
  (InstMounted /\ build # 0) =>
    LET buckets == RenderedBuckets
    IN /\ \A j, k \in DOMAIN buckets :
            buckets[j].bucketKey = buckets[k].bucketKey => j = k
       /\ \A k \in DOMAIN NonEmptyParts :
            \E j \in DOMAIN buckets :
              buckets[j].bucketKey = BucketKey(NonEmptyParts[k].md, AllSamples)
       /\ \A j \in DOMAIN buckets :
            \A mx \in RangeOf(buckets[j].matrices) :
              Occurrences(buckets[j].matrices, mx)
                = Cardinality(PartsFor(buckets[j].bucketKey, mx))
       /\ SumLen(buckets, 1) = Len(NonEmptyParts)

C6_Witness ==
  /\ InstMounted
  /\ build # 0
  /\ Len(NonEmptyParts) < Len(ReturnedParts)
  /\ Len(RenderedBuckets) >= 2
  /\ \E j \in DOMAIN RenderedBuckets : Len(RenderedBuckets[j].matrices) >= 2

\* C7: with t = max(1, floor(threshold)), a bucket is rendered as an
\* InstancedMesh iff it holds more than t matrices and as single meshes
\* otherwise, and every bucket is rendered in exactly one of the two ways.
C7_InstancedAboveThreshold ==
  (InstMounted /\ build # 0) =>
    LET t == IF threshold < 1 THEN 1 ELSE threshold
        inst == InstancedBuckets(RenderedBuckets, threshold)
        single == UninstancedBuckets(RenderedBuckets, threshold)
    IN /\ inst \cup single = DOMAIN RenderedBuckets
       /\ inst \cap single = {}
       /\ \A k \in DOMAIN RenderedBuckets :
            k \in inst <=> Len(RenderedBuckets[k].matrices) >= t + 1

C7_Witness ==
  /\ InstMounted
  /\ build # 0
  /\ threshold = 2
  /\ InstancedBuckets(RenderedBuckets, threshold) # {}
  /\ \E k \in UninstancedBuckets(RenderedBuckets, threshold) :
       Len(RenderedBuckets[k].matrices) = threshold

RECURSIVE ConcatChunks(_, _, _)
ConcatChunks(calls, mi, k) ==
  IF k > Len(calls) THEN <<>>
  ELSE (IF calls[k][1] = mi THEN calls[k][2] ELSE <<>>) \o ConcatChunks(calls, mi, k + 1)

CallsOf(calls, mi) == {k \in DOMAIN calls : calls[k][1] = mi}

\* C8: an uncancelled rebuild has asked getItemsGeometry for consecutive
\* chunks of 1..batchSize ids whose concatenation, per model and in call
\* order, is the model's id list; it made ceil(n / batchSize) calls for a
\* model of n ids; a run still in progress has asked for a prefix.
C8_Batched ==
  \A i \in DOMAIN runs :
    LET r == runs[i]
    IN /\ r.batchSize >= 1
       /\ \A k \in DOMAIN r.calls :
            /\ Len(r.calls[k][2]) >= 1
            /\ Len(r.calls[k][2]) <= r.batchSize
            /\ k > 1 => r.calls[k - 1][1] <= r.calls[k][1]
       /\ \A mi \in DOMAIN scene :
            LET got == ConcatChunks(r.calls, mi, 1)
            IN /\ Len(got) <= Len(scene[mi])
               /\ got = SubSeq(scene[mi], 1, Len(got))
               /\ r.pc = "done" =>
                    /\ got = scene[mi]
                    /\ Cardinality(CallsOf(r.calls, mi))
                         = (Len(scene[mi]) + r.batchSize - 1) \div r.batchSize

C8_Witness ==
  \E i \in DOMAIN runs :
    /\ runs[i].pc = "done"
    /\ runs[i].batchSize = 2
    /\ Len(scene) = 2
    /\ Len(runs[i].calls) = 3
    /\ Len(runs[i].calls[2][2]) = 1

\* C9: for every mode exactly one of the four renderers is mounted, the
\* selection overlay is rendered iff mode is 'fragments', and a frame runs
\* the camera / LOD update only in mode 'fragments' and, once the manager is
\* initialised, skips it only in another mode.
C9_ModesExclusive ==
  /\ [](/\ Cardinality(tree \cap Renderers) = 1
        /\ ("FragmentsRenderer" \in tree) <=> (mode = "fragments")
        /\ ("RecreatedElementsRenderer" \in tree) <=> (mode = "recreated")
        /\ ("DeclarativeRecreatedElementsRenderer" \in tree)
             <=> (mode = "declarativeRecreated")
        /\ ("InstancedRecreatedElementsRenderer" \in tree)
             <=> (mode = "instancedRecreated")
        /\ ("selectionOverlay" \in tree) <=> (mode = "fragments")
        /\ raycastInFlight => stateRef = "ready")
  /\ [][ /\ (~frameUpdated /\ frameUpdated') => mode = "fragments"
         /\ (frameUpdated /\ ~frameUpdated') => mode # "fragments"
         /\ (~raycastInFlight /\ raycastInFlight') => mode = "fragments" ]_vars

C9_Witness ==
  /\ mode = "fragments"
  /\ frameUpdated
  /\ selectionParts = 1
  /\ Len(runs) = 1

ResolverKinds == {"declarativeRecreated", "instancedRecreated"}

\* What the run has got back from resolveForMeshData so far: one entry per
\* call, with the part it was called for.
Resolved(r) ==
  IF r.kind = "declarativeRecreated"
  THEN [k \in DOMAIN r.w.parts |->
          [md |-> r.w.parts[k].md, material |-> r.w.parts[k].material]]
  ELSE [k \in DOMAIN r.w.bucketMap |->
          [md |-> r.w.bucketMap[k].templateMd, material |-> r.w.bucketMap[k].material]]

\* C10: within one rebuild two resolveForMeshData calls that resolve to the
\* same materialId return the same material, and the rebuild has created at
\* most one material per distinct resolved materialId plus the fallback.
C10_MaterialCache ==
  \A i \in DOMAIN runs :
    runs[i].kind \in ResolverKinds =>
      LET res == Resolved(runs[i])
          ids == {MaterialIdOf(res[k].md, AllSamples) : k \in DOMAIN res} \ {Undefined}
      IN /\ \A j, k \in DOMAIN res :
              ( /\ MaterialIdOf(res[j].md, AllSamples) # Undefined
                /\ MaterialIdOf(res[j].md, AllSamples) = MaterialIdOf(res[k].md, AllSamples) )
                => res[j].material = res[k].material
         /\ Len(runs[i].w.materials) <= Cardinality(ids) + 1

C10_Witness ==
  \E i \in DOMAIN runs :
    /\ runs[i].kind = "declarativeRecreated"
    /\ \E j, k \in DOMAIN runs[i].w.parts :
         /\ j # k
         /\ runs[i].w.parts[j].md.sampleId # runs[i].w.parts[k].md.sampleId
         /\ runs[i].w.parts[j].material = runs[i].w.parts[k].material
         /\ runs[i].w.parts[j].material # FallbackMaterial
    /\ \E k \in DOMAIN runs[i].w.parts : runs[i].w.parts[k].material = FallbackMaterial
    /\ Len(runs[i].w.materials) = 3

\* Number of entries of a Disposables array that hold the object `id`
Registrations(disposables, id) ==
  Cardinality({k \in DOMAIN disposables : disposables[k].id = id})

\* C11: in every run, each geometry and each material created so far
\* (the fallback material included) has exactly one entry in the run's
\* disposables and the disposables hold nothing else; for a mesh part whose
\* positions are empty buildGeometryFromMeshData returns null and leaves the
\* disposables as they were.
C11_RegisteredOnce ==
  \A i \in DOMAIN runs :
    LET w == runs[i].w
    IN /\ \A g \in 1..w.createdG : Registrations(w.geometries, g) = 1
       /\ \A m \in 1..w.createdM : Registrations(w.materials, m) = 1
       /\ Len(w.geometries) = w.createdG
       /\ Len(w.materials) = w.createdM
       /\ Registrations(w.materials, FallbackMaterial) = 1
       /\ \A p \in RangeOf(ReturnedParts) :
            Len(p.md.positions) = 0 => buildGeometryFromMeshData(w, p.md) = << w, 0 >>

C11_Witness ==
  \E i \in DOMAIN runs :
    /\ runs[i].pc = "done"
    /\ runs[i].w.createdG > 1
    /\ runs[i].w.createdM > 1
    /\ \E p \in RangeOf(ReturnedParts) : Len(p.md.positions) = 0
    /\ Len(runs[i].w.parts) < Len(ReturnedParts)

-----------------------------------------------------------------------------
(* The instancing audit *)

Logged == audit.log # << >>

RepeatedOf(bucketMap) == SelectSeq(bucketMap, LAMBDA b : Len(b.matrices) > 1)

\* C12: whenever the audit has logged a summary of a bucket map,
\* repeatedBuckets is the number of buckets with more than one part,
\* nonUniqueParts_repeated the number of parts in those buckets,
\* uniqueParts_singletons the number of buckets with exactly one part and
\* totalParts the sum of all bucket sizes.
C12_AuditCounts ==
  Logged =>
    LET s == audit.log[1]
        repeated == RepeatedOf(audit.bucketMap)
        singletons == SelectSeq(audit.bucketMap, LAMBDA b : Len(b.matrices) = 1)
    IN /\ s.repeatedBuckets = Len(repeated)
       /\ s.nonUniqueParts_repeated = SumLen(repeated, 1)
       /\ s.uniqueParts_singletons = Len(singletons)
       /\ s.totalParts = SumLen(audit.bucketMap, 1)

C12_Witness ==
  /\ Logged
  /\ Len(audit.bucketMap) = 2
  /\ audit.log[1].repeatedBuckets = 1
  /\ audit.log[1].uniqueParts_singletons = 1
  /\ audit.log[1].nonUniqueParts_repeated = 201
  /\ audit.log[1].totalParts = 202

\* The sizes a histogram label stands for
InLabel(l, n) ==
  CASE l = "1" -> n = 1
    [] l = "2" -> n = 2
    [] l = "3-5" -> n \in 3..5
    [] l = "6-10" -> n \in 6..10
    [] l = "11-50" -> n \in 11..50
    [] l = "51-200" -> n \in 51..200
    [] l = "201+" -> n >= 201

\* C13: whenever the audit has logged a summary of a bucket map, each of the
\* seven bins of bucketSizeHistogram counts exactly the buckets whose size
\* lies in the range of its label, every bucket's size lies in the range of
\* exactly one label, and the seven counts add up to the number of buckets.
C13_Histogram ==
  Logged =>
    LET h == audit.log[1].bucketSizeHistogram
        bm == audit.bucketMap
    IN /\ DOMAIN h = {"1", "2", "3-5", "6-10", "11-50", "51-200", "201+"}
       /\ \A l \in DOMAIN h :
            h[l] = Cardinality({k \in DOMAIN bm : InLabel(l, Len(bm[k].matrices))})
       /\ \A k \in DOMAIN bm :
            Cardinality({l \in DOMAIN h : InLabel(l, Len(bm[k].matrices))}) = 1
       /\ h["1"] + h["2"] + h["3-5"] + h["6-10"] + h["11-50"] + h["51-200"] + h["201+"]
            = Len(bm)

C13_Witness ==
  /\ Logged
  /\ {Len(b.matrices) : b \in RangeOf(audit.bucketMap)} = {200, 201}
  /\ audit.log[1].bucketSizeHistogram["51-200"] = 1
  /\ audit.log[1].bucketSizeHistogram["201+"] = 1

\* C14: whenever the audit has logged a summary of a bucket map, every entry
\* of topRepeatedBuckets is a bucket of the map with its size as `instances`
\* and more than one part, no bucket is listed twice, the entries are in
\* non-increasing order of instances, there are min(topN, repeated buckets) of
\* them with topN = 20 when the option is absent, and no repeated bucket left
\* out is larger than a listed one.
C14_TopRepeated ==
  Logged =>
    LET top == audit.log[1].topRepeatedBuckets
        bm == audit.bucketMap
        topN == IF audit.options = << >> THEN 20 ELSE audit.options[1]
        listed == {top[j].bucketKey : j \in DOMAIN top}
    IN /\ \A j \in DOMAIN top :
            /\ top[j].instances > 1
            /\ \E k \in DOMAIN bm : /\ bm[k].bucketKey = top[j].bucketKey
                                    /\ Len(bm[k].matrices) = top[j].instances
       /\ Cardinality(listed) = Len(top)
       /\ \A j \in 1..(Len(top) - 1) : top[j].instances >= top[j + 1].instances
       /\ Len(top) = Min(topN, Len(RepeatedOf(bm)))
       /\ \A k \in DOMAIN bm :
            (Len(bm[k].matrices) > 1 /\ bm[k].bucketKey \notin listed)
              => \A j \in DOMAIN top : Len(bm[k].matrices) <= top[j].instances

C14_Witness ==
  /\ Logged
  /\ audit.options = << 1 >>
  /\ Len(RepeatedOf(audit.bucketMap)) = 2
  /\ Len(audit.bucketMap[1].matrices) = 2
  /\ Len(audit.log[1].topRepeatedBuckets) = 1
  /\ audit.log[1].topRepeatedBuckets[1].instances = 201

-----------------------------------------------------------------------------
(* Teardown of useThatOpenFragments *)

\* C15: once the hook's effect has been cleaned up and its run() has come to
\* its end, the FragmentsManager that run() initialised has been disposed and
\* the worker object URL it created has been revoked.
C15_DisposedAfterCleanup ==
  (~hook.mountedRef /\ hook.pc = "loaded")
    => (hook.fragments = "disposed" /\ hook.workerUrl = "revoked")

====
